---- MODULE Spec2Model ----
(***************************************************************************)
(* Model of src/utils/get_models.py: the local cache of downloadable model *)
(* weight files (download_model, model_exists_in_package, get_model_path,  *)
(* download_all_models).                                                   *)
(*                                                                         *)
(* Names are sequences of tokens: a token is either the dot "." or a       *)
(* maximal run of non-dot characters, so that str.split('.'),              *)
(* os.path.splitext and str.endswith can be computed as Python computes    *)
(* them. A URL is the sequence of its "/"-separated segments.              *)
(***************************************************************************)
EXTENDS Integers, Sequences, FiniteSets, TLC

VARIABLES
    fs,            \* download side: directory path -> its state on disk
    manifestFile,  \* content of <root>/models_dir/models.json
    pc,            \* "idle" | "fetch" (in download_model's loop) |
                   \* "all_loop" (in download_all_models' loops) | "done"
    op,            \* the top-level call in progress or finished
    dm,            \* frame of the running download_model call
    all,           \* frame of the running download_all_models call
    ret,           \* outcome of the finished top-level call
    fetched,       \* URLs handed to urlretrieve by the current download_model
    fs0,           \* fs when the current download_model call started
    gdir,          \* get_model_path: the state on disk of model_dir
    gcall          \* get_model_path: the call made and its outcome

vars == <<fs, manifestFile, pc, op, dm, all, ret, fetched, fs0, gdir, gcall>>

dlvars == <<fs, manifestFile, pc, op, dm, all, ret, fetched, fs0>>
gvars == <<gdir, gcall>>

(***************************************************************************)
(* Strings as token sequences.                                             *)
(***************************************************************************)
Dot == "."

HasDot(s) == \E i \in 1..Len(s) : s[i] = Dot

\* s.split('.')[0]: the text before the first dot (empty when s starts
\* with a dot); the whole of s when it has no dot.
FirstDot(s) == CHOOSE i \in 1..Len(s) : s[i] = Dot /\ \A j \in 1..(i-1) : s[j] # Dot
SplitDotFirst(s) == IF HasDot(s) THEN SubSeq(s, 1, FirstDot(s) - 1) ELSE s

\* os.path.splitext(s): split at the last dot, unless only dots precede it
\* (leading dots belong to the root).
LastDot(s) == CHOOSE i \in 1..Len(s) : s[i] = Dot /\ \A j \in (i+1)..Len(s) : s[j] # Dot
SplitsAtLastDot(s) == HasDot(s) /\ \E j \in 1..(LastDot(s) - 1) : s[j] # Dot
SplitextRoot(s) == IF SplitsAtLastDot(s) THEN SubSeq(s, 1, LastDot(s) - 1) ELSE s
SplitextExt(s) == IF SplitsAtLastDot(s) THEN SubSeq(s, LastDot(s), Len(s)) ELSE <<>>

\* s.endswith(suffix)
EndsWith(s, suffix) ==
    /\ Len(s) >= Len(suffix)
    /\ SubSeq(s, Len(s) - Len(suffix) + 1, Len(s)) = suffix

ModelExtensions == {<<Dot, "onnx">>, <<Dot, "pth">>, <<Dot, "ckpt">>}

EndsWithModelExtension(s) == \E e \in ModelExtensions : EndsWith(s, e)

(***************************************************************************)
(* get_model_path(model_name, model_dir)                                   *)
(***************************************************************************)
MaxEntries == 2

\* names an entry of model_dir may carry
EntryNames ==
    { <<"model">>,
      <<"model", Dot, "onnx">>,
      <<"model", Dot, "txt">>,
      <<"model", Dot, "tar", Dot, "gz">>,
      <<"other", Dot, "pth">> }

\* names an entry of a subdirectory of model_dir may carry
SubNames ==
    { <<"weights", Dot, "ckpt">>,
      <<"notes", Dot, "txt">>,
      <<Dot, "pth">> }

\* model_name arguments
ModelNames ==
    { <<"model">>,
      <<"model", Dot, "onnx">>,
      <<"model", Dot, "txt">>,
      <<"model", Dot, "tar">>,
      <<"other">> }

\* An entry of model_dir: a regular file, or a directory with its listing.
EntryStates ==
    {[kind |-> "file", list |-> {}]} \cup
    [kind : {"dir"}, list : SUBSET SubNames]

\* model_dir on disk: absent, a regular file, or a directory whose entries
\* map names to entry states.
DirStates ==
    {[kind |-> "absent", entries |-> <<>>], [kind |-> "file", entries |-> <<>>]} \cup
    { [kind |-> "dir", entries |-> e] :
        e \in UNION { [D -> EntryStates] :
                        D \in {S \in SUBSET EntryNames : Cardinality(S) <= MaxEntries} } }

GIsFile(d, n) == d.kind = "dir" /\ n \in DOMAIN d.entries /\ d.entries[n].kind = "file"
GIsDir(d, n) == d.kind = "dir" /\ n \in DOMAIN d.entries /\ d.entries[n].kind = "dir"

GNone == [kind |-> "none", path |-> <<>>]
GRaise == [kind |-> "raise", path |-> <<>>]
GPath(p) == [kind |-> "path", path |-> p]

\* lines 111-114: the entries of model_dir/model_name the first loop can
\* return. os.listdir's order is arbitrary, so any of them can come first.
SubdirHits(d, name) ==
    IF GIsDir(d, name)
    THEN {f \in d.entries[name].list : EndsWithModelExtension(f)}
    ELSE {}

\* lines 119-123: the entries of model_dir the second loop can return.
ScanHits(d, name) ==
    {f \in DOMAIN d.entries : GIsFile(d, f) /\ SplitextRoot(f) = name}

\* get_model_path with the two searches of lines 107-123 in the other order
get_model_path_scan_first(d, name) ==
    IF d.kind = "absent" THEN {GNone}
    ELSE IF SplitextExt(name) # <<>>
    THEN IF GIsFile(d, name) THEN {GPath(<<name>>)} ELSE {GNone}
    ELSE IF d.kind # "dir" THEN {GRaise}
    ELSE IF ScanHits(d, name) # {}
    THEN {GPath(<<f>>) : f \in ScanHits(d, name)}
    ELSE IF SubdirHits(d, name) # {}
    THEN {GPath(<<name, f>>) : f \in SubdirHits(d, name)}
    ELSE {GNone}

\* get_model_path that goes on to search when the exact file of a name
\* with an extension is missing (lines 99-103 without the return of 103)
get_model_path_search_on(d, name) ==
    IF d.kind = "absent" THEN {GNone}
    ELSE IF SplitextExt(name) # <<>> /\ GIsFile(d, name) THEN {GPath(<<name>>)}
    ELSE IF SubdirHits(d, name) # {}
    THEN {GPath(<<name, f>>) : f \in SubdirHits(d, name)}
    ELSE IF d.kind # "dir" THEN {GRaise}
    ELSE IF {f \in DOMAIN d.entries : GIsFile(d, f) /\ SplitextRoot(f) = SplitextRoot(name)} # {}
    THEN {GPath(<<f>>) : f \in {g \in DOMAIN d.entries :
                                  GIsFile(d, g) /\ SplitextRoot(g) = SplitextRoot(name)}}
    ELSE {GNone}

\* The outcomes of get_model_path(name, d): paths are given relative to
\* model_dir as the sequence of joined components.
get_model_path(d, name) ==
    IF d.kind = "absent" THEN {GNone}                                \* 94-95
    ELSE IF SplitextExt(name) # <<>>                                 \* 98-99
    THEN IF GIsFile(d, name) THEN {GPath(<<name>>)} ELSE {GNone}     \* 100-103
    ELSE IF SubdirHits(d, name) # {}                                 \* 109-114
    THEN {GPath(<<name, f>>) : f \in SubdirHits(d, name)}
    ELSE IF d.kind # "dir" THEN {GRaise}             \* 119: os.listdir raises
    ELSE IF ScanHits(d, name) # {}                                   \* 119-123
    THEN {GPath(<<f>>) : f \in ScanHits(d, name)}
    ELSE {GNone}                                                     \* 125

GIdle == [name |-> <<>>, result |-> GNone, done |-> FALSE]

CallGetModelPath(name) ==
    /\ ~gcall.done
    /\ \E r \in get_model_path(gdir, name) :
         gcall' = [name |-> name, result |-> r, done |-> TRUE]
    /\ UNCHANGED <<gdir, dlvars>>

(***************************************************************************)
(* The filesystem the download operations act on: each directory is       *)
(* absent, a regular file, or a directory holding files that are whole     *)
(* ("complete") or cut short ("partial"). os.makedirs is taken to succeed  *)
(* whenever the path does not exist.                                       *)
(***************************************************************************)
MaxUrls == 3
MaxModels == 2

NoPath == <<>>

Archs == {"a1", "a2"}

\* model_name arguments and manifest keys: one without a dot, one with
Names == { <<"m">>, <<"m", Dot, "v1">> }

\* uvr_path/models_dir/<arch>/weights/<name>  (lines 31 and 76)
WeightsDir(arch, name) == <<"models_dir", arch, "weights", name>>

\* a directory outside the conventional layout, usable as save_path
OutDir == <<"out">>

Dirs ==
    { WeightsDir(a, n) : a \in Archs, n \in Names \cup {SplitDotFirst(m) : m \in Names} }
    \cup {OutDir}

\* a URL is the sequence of its "/"-separated segments
URLs == { <<"h1", "f1">>, <<"h2", "f1">>, <<"h1", "f2">> }

\* path.split("/")[-1]  (line 36)
LastSegment(url) == url[Len(url)]

FileNames == {LastSegment(u) : u \in URLs}

FilesOf(urls) == [i \in 1..Len(urls) |-> LastSegment(urls[i])]

SeqsUpTo(S, n) == UNION { [1..k -> S] : k \in 0..n }

IsInjective(s) == \A i, j \in 1..Len(s) : s[i] = s[j] => i = j

\* model_path lists: up to MaxUrls URLs, none listed twice
UrlLists == {l \in SeqsUpTo(URLs, MaxUrls) : IsInjective(l)}

\* files lists of model_exists_in_package
FileLists == SeqsUpTo(FileNames, MaxUrls)

NoFiles == [f \in FileNames |-> "none"]

AbsentDir == [kind |-> "absent", files |-> NoFiles]
EmptyDir == [kind |-> "dir", files |-> NoFiles]
PlainFile == [kind |-> "file", files |-> NoFiles]

\* os.path.exists(d)
Exists(f, d) == f[d].kind # "absent"

\* os.path.isfile(os.path.join(d, file))
IsFile(f, d, file) == f[d].kind = "dir" /\ f[d].files[file] # "none"

\* os.makedirs(d), called only when d does not exist (lines 33-34)
MakeDirs(f, d) == [f EXCEPT ![d] = EmptyDir]

\* the file d/file after a write that left it in state c
WithFile(f, d, file, c) == [f EXCEPT ![d].files[file] = c]

(***************************************************************************)
(* model_exists_in_package(model_name, model_arch, save_path, files)       *)
(* spGiven / filesGiven tell whether the optional argument was passed.     *)
(***************************************************************************)
\* lines 71-76: the directory the check looks in
LookupDir(name, arch, spGiven, sp) ==
    IF spGiven THEN sp ELSE WeightsDir(arch, SplitDotFirst(name))

\* model_exists_in_package without the loop of lines 78-82
model_exists_dir_only(f, name, arch, spGiven, sp, filesGiven, files) ==
    Exists(f, LookupDir(name, arch, spGiven, sp))

model_exists_in_package(f, name, arch, spGiven, sp, filesGiven, files) ==
    LET dir == LookupDir(name, arch, spGiven, sp)
    IN  IF filesGiven /\ \E i \in 1..Len(files) : ~IsFile(f, dir, files[i])
        THEN FALSE                                    \* 78-82
        ELSE Exists(f, dir)                           \* 84-86

(***************************************************************************)
(* The manifest: architecture -> model name -> [model_path |-> URLs].      *)
(***************************************************************************)
NoEntries == <<>>

\* a model's full list of remote files
FullList == << <<"h1", "f1">>, <<"h1", "f2">> >>

\* the URL lists manifests carry: the full list and what precedes its end
ManifestUrlLists ==
    { SubSeq(FullList, 1, k) : k \in 0..Len(FullList) } \cap UrlLists

ModelMaps ==
    UNION { [D -> [model_path : ManifestUrlLists]] : D \in SUBSET Names }

EntryCount(mj) ==
    LET RECURSIVE Sum(_)
        Sum(S) == IF S = {} THEN 0
                  ELSE LET a == CHOOSE x \in S : TRUE
                       IN  Cardinality(DOMAIN mj[a]) + Sum(S \ {a})
    IN  Sum(DOMAIN mj)

Manifests ==
    { mj \in UNION { [A -> ModelMaps] : A \in SUBSET Archs } : EntryCount(mj) <= MaxModels }

HasEntry(mj, arch, name) == arch \in DOMAIN mj /\ name \in DOMAIN mj[arch]

(***************************************************************************)
(* Call frames and results.                                                *)
(***************************************************************************)
NoOp == [kind |-> "none"]

NoDM == [status |-> "none", name |-> <<>>, arch |-> "", model_path |-> <<>>,
         save_path |-> NoPath, i |-> 0, hit |-> FALSE]

NoAll == [active |-> FALSE, models_json |-> <<>>, spGiven |-> FALSE, sp |-> NoPath,
          logger |-> FALSE, archsLeft |-> {}, cur |-> "", namesLeft |-> {},
          paths |-> <<>>, called |-> <<>>, failed |-> {}]

Pending == [kind |-> "pending", val |-> <<>>]
RetNone == [kind |-> "none", val |-> <<>>]
RetPath(d) == [kind |-> "path", val |-> d]
RetRaise(e) == [kind |-> "raise", val |-> e]
RetBool(b) == [kind |-> "bool", val |-> b]
RetMapping(m) == [kind |-> "mapping", val |-> m]

(***************************************************************************)
(* download_model(model_name, model_arch, model_path, save_path, logger)   *)
(* The logger only receives messages (lines 24-25, 38-39, 47-48, 54-55)    *)
(* and is not part of the state.                                           *)
(***************************************************************************)
\* line 28 raises KeyError when the manifest has no such entry
DMKeyError(name, arch, urlsGiven) ==
    ~urlsGiven /\ ~HasEntry(manifestFile, arch, name)

\* lines 23-28
DMUrls(name, arch, urlsGiven, urls) ==
    IF urlsGiven THEN urls ELSE manifestFile[arch][name].model_path

\* lines 30-31
DMSaveDir(name, arch, spGiven, sp) ==
    IF spGiven THEN sp ELSE WeightsDir(arch, name)

\* lines 33-34
DMPrepared(f, d) == IF Exists(f, d) THEN f ELSE MakeDirs(f, d)

\* line 37: the check is made without save_path
DMAlreadyExists(f, name, arch, files) ==
    model_exists_in_package(f, name, arch, FALSE, NoPath, TRUE, files)

\* Finish that stores a result only when it is a path
FinishSkipsNone(kind, base, name, v) ==
    IF kind = "download_model" \/ v.kind = "raise"
    THEN /\ pc' = "done"
         /\ ret' = v
         /\ all' = base
    ELSE /\ pc' = "all_loop"
         /\ ret' = ret
         /\ all' = IF v.kind = "none" THEN base
                   ELSE [base EXCEPT !.paths[base.cur] = (name :> v) @@ @]

\* What the end of a download_model call does to its caller: a top-level
\* call ends; inside download_all_models (lines 163-164) the value is
\* stored under paths[arch][name] and the loop goes on, and an exception
\* propagates out of download_all_models.
Finish(kind, base, name, v) ==
    IF kind = "download_model" \/ v.kind = "raise"
    THEN /\ pc' = "done"
         /\ ret' = v
         /\ all' = base
    ELSE /\ pc' = "all_loop"
         /\ ret' = ret
         /\ all' = [base EXCEPT !.paths[base.cur] = (name :> v) @@ @]

\* DMBegin with the directory made (lines 30-34) before the manifest is read
DMBeginLookupLast(kind, base, name, arch, urlsGiven, urls, spGiven, sp) ==
    /\ fs0' = fs
    /\ fetched' = <<>>
    /\ LET save == DMSaveDir(name, arch, spGiven, sp)
           f1 == DMPrepared(fs, save)
       IN  /\ fs' = f1
           /\ IF DMKeyError(name, arch, urlsGiven)
              THEN /\ dm' = [NoDM EXCEPT !.status = "raised", !.name = name, !.arch = arch]
                   /\ Finish(kind, base, name, RetRaise("KeyError"))
              ELSE LET us == DMUrls(name, arch, urlsGiven, urls)
                       frame == [status |-> "running", name |-> name, arch |-> arch,
                                 model_path |-> us, save_path |-> save, i |-> 1,
                                 hit |-> FALSE]
                   IN  IF DMAlreadyExists(f1, name, arch, FilesOf(us))
                       THEN /\ dm' = [frame EXCEPT !.status = "returned", !.hit = TRUE]
                            /\ Finish(kind, base, name, RetPath(save))
                       ELSE /\ dm' = frame
                            /\ pc' = "fetch"
                            /\ ret' = ret
                            /\ all' = base

\* lines 23-40, and the entry into the loop of line 44
DMBegin(kind, base, name, arch, urlsGiven, urls, spGiven, sp) ==
    /\ fs0' = fs
    /\ fetched' = <<>>
    /\ IF DMKeyError(name, arch, urlsGiven)
       THEN /\ fs' = fs
            /\ dm' = [NoDM EXCEPT !.status = "raised", !.name = name, !.arch = arch]
            /\ Finish(kind, base, name, RetRaise("KeyError"))
       ELSE LET us == DMUrls(name, arch, urlsGiven, urls)
                save == DMSaveDir(name, arch, spGiven, sp)
                f1 == DMPrepared(fs, save)
                frame == [status |-> "running", name |-> name, arch |-> arch,
                          model_path |-> us, save_path |-> save, i |-> 1, hit |-> FALSE]
            IN  /\ fs' = f1
                /\ IF DMAlreadyExists(f1, name, arch, FilesOf(us))
                   THEN /\ dm' = [frame EXCEPT !.status = "returned", !.hit = TRUE]
                        /\ Finish(kind, base, name, RetPath(save))
                   ELSE /\ dm' = frame
                        /\ pc' = "fetch"
                        /\ ret' = ret
                        /\ all' = base

\* save_path arguments of direct calls
CallArchs == {"a1"}
SavePaths ==
    { WeightsDir(a, n) : a \in CallArchs, n \in Names \cup {SplitDotFirst(m) : m \in Names} }
    \cup {OutDir}

download_model ==
    /\ pc = "idle"
    /\ \E name \in Names, arch \in CallArchs, urlsGiven \in BOOLEAN, spGiven \in BOOLEAN :
       \E urls \in IF urlsGiven THEN UrlLists ELSE {<<>>},
          sp \in IF spGiven THEN SavePaths ELSE {NoPath} :
         /\ op' = [kind |-> "download_model", name |-> name, arch |-> arch,
                   urlsGiven |-> urlsGiven, model_path |-> urls,
                   spGiven |-> spGiven, sp |-> sp]
         /\ DMBegin("download_model", all, name, arch, urlsGiven, urls, spGiven, sp)
    /\ UNCHANGED <<manifestFile, gvars>>

\* line 46: urllib.request.urlretrieve(path, local_file_path). It opens the
\* URL, then opens the local file for writing (truncating it), then copies.
\* "ok": the file is written whole. "refused": the URL could not be opened,
\* or the local file could not be opened for writing; nothing is written.
\* "cut": the transfer broke after the local file was opened; the file is
\* left with what arrived.
UrlRetrieveOutcomes(f, d) ==
    IF f[d].kind = "dir" THEN {"ok", "refused", "cut"} ELSE {"refused"}

UrlRetrieve(f, d, file, outcome) ==
    CASE outcome = "ok" -> WithFile(f, d, file, "complete")
      [] outcome = "cut" -> WithFile(f, d, file, "partial")
      [] OTHER -> f

CurUrl == dm.model_path[dm.i]

\* lines 44-48: one iteration of the loop that succeeds
FetchOK ==
    /\ pc = "fetch"
    /\ dm.i <= Len(dm.model_path)
    /\ "ok" \in UrlRetrieveOutcomes(fs, dm.save_path)
    /\ fs' = UrlRetrieve(fs, dm.save_path, LastSegment(CurUrl), "ok")
    /\ fetched' = Append(fetched, CurUrl)
    /\ dm' = [dm EXCEPT !.i = @ + 1]
    /\ UNCHANGED <<manifestFile, pc, op, all, ret, fs0, gvars>>

\* FetchFail with the exception caught inside the loop, which then goes on
FetchFailKeepsGoing ==
    /\ pc = "fetch"
    /\ dm.i <= Len(dm.model_path)
    /\ \E outcome \in UrlRetrieveOutcomes(fs, dm.save_path) \ {"ok"} :
         fs' = UrlRetrieve(fs, dm.save_path, LastSegment(CurUrl), outcome)
    /\ fetched' = Append(fetched, CurUrl)
    /\ dm' = [dm EXCEPT !.status = "failed", !.i = @ + 1]
    /\ UNCHANGED <<manifestFile, pc, op, all, ret, fs0, gvars>>

\* lines 44-46 and 53-57: the iteration whose fetch raises; the exception is
\* caught and download_model returns None
FetchFail ==
    /\ pc = "fetch"
    /\ dm.i <= Len(dm.model_path)
    /\ \E outcome \in UrlRetrieveOutcomes(fs, dm.save_path) \ {"ok"} :
         fs' = UrlRetrieve(fs, dm.save_path, LastSegment(CurUrl), outcome)
    /\ fetched' = Append(fetched, CurUrl)
    /\ dm' = [dm EXCEPT !.status = "failed"]
    /\ Finish(op.kind,
              IF all.active
              THEN [all EXCEPT !.failed = @ \cup {<<dm.arch, dm.name>>}]
              ELSE all,
              dm.name, RetNone)
    /\ UNCHANGED <<manifestFile, op, fs0, gvars>>

\* line 51: the loop ran to its end
FetchLoopExit ==
    /\ pc = "fetch"
    /\ dm.i > Len(dm.model_path)
    /\ dm' = [dm EXCEPT !.status = "returned"]
    /\ Finish(op.kind, all, dm.name, RetPath(dm.save_path))
    /\ UNCHANGED <<fs, manifestFile, op, fetched, fs0, gvars>>

\* a direct call of model_exists_in_package
CallModelExistsInPackage ==
    /\ pc = "idle"
    /\ \E name \in Names, arch \in CallArchs, spGiven \in BOOLEAN, filesGiven \in BOOLEAN :
       \E sp \in IF spGiven THEN SavePaths ELSE {NoPath},
          files \in IF filesGiven THEN FileLists ELSE {<<>>} :
         /\ op' = [kind |-> "model_exists", name |-> name, arch |-> arch,
                   spGiven |-> spGiven, sp |-> sp,
                   filesGiven |-> filesGiven, files |-> files]
         /\ ret' = RetBool(model_exists_in_package(fs, name, arch, spGiven, sp,
                                                filesGiven, files))
    /\ pc' = "done"
    /\ UNCHANGED <<fs, manifestFile, dm, all, fetched, fs0, gvars>>

(***************************************************************************)
(* Specification of the direct calls.                                      *)
(***************************************************************************)
\* directories as earlier runs leave them: absent, or holding whole files
InitDirStates ==
    {AbsentDir} \cup
    { [kind |-> "dir", files |-> fl] : fl \in [FileNames -> {"none", "complete"}] }

DMManifests ==
    { mj \in Manifests :
        /\ DOMAIN mj \subseteq CallArchs
        /\ \A a \in DOMAIN mj : \A n \in DOMAIN mj[a] : mj[a][n].model_path = FullList }

InitG ==
    /\ gdir = [kind |-> "absent", entries |-> <<>>]
    /\ gcall = GIdle

InitCalls ==
    /\ pc = "idle"
    /\ op = NoOp
    /\ dm = NoDM
    /\ all = NoAll
    /\ ret = Pending
    /\ fetched = <<>>
    /\ fs0 = fs

InitDM ==
    /\ fs \in { f \in [Dirs -> InitDirStates \cup {PlainFile}] :
                  /\ \A d \in Dirs \ SavePaths : f[d] = AbsentDir
                  /\ \A d \in Dirs \ {OutDir} : f[d] # PlainFile }
    /\ manifestFile \in DMManifests
    /\ InitCalls
    /\ InitG

NextDM ==
    \/ download_model
    \/ CallModelExistsInPackage
    \/ FetchOK
    \/ FetchFail
    \/ FetchLoopExit

SpecDM == InitDM /\ [][NextDM]_vars

(***************************************************************************)
(* download_all_models(models_json, save_path, logger)                     *)
(* A dict is iterated in its insertion order; the model lets the loops     *)
(* take the keys in any order.                                             *)
(***************************************************************************)
\* lines 152-157. With no manifest and a logger, line 155 formats
\* {model_name}, a local that is bound only later by the loop of line 161:
\* UnboundLocalError, a NameError.
download_all_models ==
    /\ pc = "idle"
    /\ \E mjGiven \in BOOLEAN, spGiven \in BOOLEAN, logger \in BOOLEAN :
       \E mj \in IF mjGiven THEN Manifests ELSE {<<>>},
          sp \in IF spGiven THEN {OutDir} ELSE {NoPath} :
         /\ op' = [kind |-> "download_all", mjGiven |-> mjGiven, models_json |-> mj,
                   spGiven |-> spGiven, sp |-> sp, logger |-> logger]
         /\ IF ~mjGiven /\ logger
            THEN /\ pc' = "done"
                 /\ ret' = RetRaise("NameError")
                 /\ all' = all
            ELSE LET models_json == IF mjGiven THEN mj ELSE manifestFile
                 IN  /\ pc' = "all_loop"
                     /\ ret' = ret
                     /\ all' = [NoAll EXCEPT
                                  !.active = TRUE, !.models_json = models_json,
                                  !.spGiven = spGiven, !.sp = sp, !.logger = logger,
                                  !.archsLeft = DOMAIN models_json]
    /\ UNCHANGED <<fs, manifestFile, dm, fetched, fs0, gvars>>

\* lines 159-160: the outer loop takes the next architecture
AllNextArch ==
    /\ pc = "all_loop"
    /\ all.namesLeft = {}
    /\ \E a \in all.archsLeft :
         all' = [all EXCEPT !.cur = a,
                            !.archsLeft = @ \ {a},
                            !.namesLeft = DOMAIN all.models_json[a],
                            !.paths = (a :> NoEntries) @@ @]
    /\ UNCHANGED <<fs, manifestFile, pc, op, dm, ret, fetched, fs0, gvars>>

\* lines 161-164: the inner loop takes the next model and calls
\* download_model with its model_path
AllNextModel ==
    /\ pc = "all_loop"
    /\ \E n \in all.namesLeft :
         DMBegin("download_all",
                 [all EXCEPT !.namesLeft = @ \ {n},
                             !.called = Append(@, <<all.cur, n>>)],
                 n, all.cur, TRUE, all.models_json[all.cur][n].model_path,
                 all.spGiven, all.sp)
    /\ UNCHANGED <<manifestFile, op, gvars>>

\* line 166
AllReturn ==
    /\ pc = "all_loop"
    /\ all.namesLeft = {}
    /\ all.archsLeft = {}
    /\ pc' = "done"
    /\ ret' = RetMapping(all.paths)
    /\ UNCHANGED <<fs, manifestFile, op, dm, all, fetched, fs0, gvars>>

FullDir == [kind |-> "dir", files |-> [f \in FileNames |-> "complete"]]

\* models.json as shipped: MaxModels models, each with its full list
FileManifests ==
    { mj \in Manifests :
        /\ EntryCount(mj) = MaxModels
        /\ \A a \in DOMAIN mj : \A n \in DOMAIN mj[a] : mj[a][n].model_path = FullList }

InitAll ==
    /\ fs \in { f \in [Dirs -> {AbsentDir, FullDir}] : f[OutDir] = AbsentDir }
    /\ manifestFile \in FileManifests
    /\ InitCalls
    /\ InitG

NextAll ==
    \/ download_all_models
    \/ AllNextArch
    \/ AllNextModel
    \/ AllReturn
    \/ FetchOK
    \/ FetchFail
    \/ FetchLoopExit

SpecAll == InitAll /\ [][NextAll]_vars

(***************************************************************************)
(* Specification of get_model_path.                                        *)
(***************************************************************************)
InitPath ==
    /\ gdir \in DirStates
    /\ gcall = GIdle
    /\ fs = [d \in Dirs |-> AbsentDir]
    /\ manifestFile = <<>>
    /\ InitCalls

NextPath == \E name \in ModelNames : CallGetModelPath(name)

SpecPath == InitPath /\ [][NextPath]_vars

(***************************************************************************)
(* Properties of get_model_path (checked under SpecPath).                  *)
(***************************************************************************)
\* the call made has a name with / without an extension
GNameHasExt ==
    \E i \in 2..Len(gcall.name) :
        gcall.name[i] = Dot /\ \E j \in 1..(i - 1) : gcall.name[j] # Dot
GExactFile ==
    /\ gdir.kind = "dir"
    /\ gcall.name \in DOMAIN gdir.entries
    /\ gdir.entries[gcall.name].kind = "file"

\* the same-named subdirectory and its entries with a model extension
GSubdirModels ==
    IF /\ gdir.kind = "dir"
       /\ gcall.name \in DOMAIN gdir.entries
       /\ gdir.entries[gcall.name].kind = "dir"
    THEN { f \in gdir.entries[gcall.name].list :
             \E x \in {"onnx", "pth", "ckpt"} :
               Len(f) >= 2 /\ f[Len(f)] = x /\ f[Len(f) - 1] = Dot }
    ELSE {}

\* the regular files of model_dir whose base name is the name asked for
GBaseNameFiles ==
    IF gdir.kind = "dir"
    THEN { f \in DOMAIN gdir.entries :
             /\ gdir.entries[f].kind = "file"
             /\ \/ f = gcall.name
                \/ \E x \in {"onnx", "txt", "pth", "gz", "tar", "ckpt"} :
                     f = gcall.name \o <<Dot, x>> }
    ELSE {}

\* C5: get_model_path never raises: whatever model_dir is on disk (absent,
\* empty, any entries, or a regular file), the call returns a path or none.
C5_NeverRaises ==
    gcall.done => gcall.result.kind \in {"path", "none"}

\* C6: for a name without extension, a same-named subdirectory holding an
\* entry ending in .onnx, .pth or .ckpt wins (the result lies inside it),
\* even when model_dir holds a file of that base name; otherwise the result
\* is a regular file of model_dir whose base name is the name, and none when
\* there is no such file. (model_dir is a directory or absent.)
C6_SubdirFirst ==
    (gcall.done /\ ~GNameHasExt /\ gdir.kind # "file") =>
        IF GSubdirModels # {}
        THEN /\ gcall.result.kind = "path"
             /\ \E f \in GSubdirModels : gcall.result.path = <<gcall.name, f>>
        ELSE IF GBaseNameFiles # {}
        THEN /\ gcall.result.kind = "path"
             /\ \E f \in GBaseNameFiles : gcall.result.path = <<f>>
        ELSE gcall.result = GNone

\* reached: the subdirectory wins over a file of the same base name
C6_Witness ==
    /\ gcall.done
    /\ gcall.name = <<"model">>
    /\ GSubdirModels # {}
    /\ GBaseNameFiles # {}
    /\ gcall.result.kind = "path"
    /\ Len(gcall.result.path) = 2

\* C7: for a name with an extension, the result is model_dir/name exactly
\* when that path is a regular file, and none in every other case; nothing
\* else is searched.
C7_ExactFileOnly ==
    (gcall.done /\ GNameHasExt) =>
        gcall.result = IF GExactFile THEN GPath(<<gcall.name>>) ELSE GNone

\* reached: the exact file is missing while a file of the same base name
\* with another extension exists, and none is returned
C7_Witness ==
    /\ gcall.done
    /\ gcall.name = <<"model", Dot, "onnx">>
    /\ ~GExactFile
    /\ gdir.kind = "dir"
    /\ <<"model", Dot, "txt">> \in DOMAIN gdir.entries
    /\ gdir.entries[<<"model", Dot, "txt">>].kind = "file"
    /\ gcall.result = GNone

(***************************************************************************)
(* Properties of download_model and model_exists_in_package (checked       *)
(* under SpecDM).                                                          *)
(***************************************************************************)
\* a direct download_model call that got past the manifest lookup
DMCalled == op.kind = "download_model" /\ dm.status \in {"running", "failed", "returned"}

\* the file download_model stores URL number i under
DMFile(i) == dm.model_path[i][Len(dm.model_path[i])]

\* every expected file is in directory d of filesystem f
DMAllPresent(f, d) ==
    \A i \in 1..Len(dm.model_path) :
        f[d].kind = "dir" /\ f[d].files[DMFile(i)] # "none"

\* C1: if every expected file is already in the directory download_model
\* would return when it is called, it fetches nothing and returns that
\* directory.
C1_NoFetchWhenComplete ==
    (DMCalled /\ DMAllPresent(fs0, dm.save_path)) =>
        /\ fetched = <<>>
        /\ dm.status # "failed"
        /\ pc = "done" => ret = RetPath(dm.save_path)

\* C10: whenever download_model returns a path, every expected file exists
\* in the returned directory.
C10_ReturnedDirComplete ==
    (DMCalled /\ pc = "done" /\ ret.kind = "path") => DMAllPresent(fs, ret.val)

\* the step in which the fetch of URL number dm.i fails
C2_FailStep == op.kind = "download_model" /\ pc = "fetch" /\ dm'.status = "failed"

\* the URLs are fetched one at a time in list order
C2_InOrder ==
    DMCalled =>
        /\ Len(fetched) <= Len(dm.model_path)
        /\ \A j \in 1..Len(fetched) : fetched[j] = dm.model_path[j]
        /\ pc = "fetch" => Len(fetched) = dm.i - 1

\* the failing step fetches URL number i and makes the call return null
C2_FailReturnsNull ==
    C2_FailStep =>
        /\ fetched' = Append(fetched, dm.model_path[dm.i])
        /\ pc' = "done"
        /\ ret' = RetNone

\* after the failure nothing more is fetched or written
C2_NothingAfter == dm.status = "failed" => (fetched' = fetched /\ fs' = fs)

\* the failing step leaves every directory in place
C2_DirsStay == C2_FailStep => \A d \in Dirs : fs'[d].kind = fs[d].kind

\* the failing step leaves the files written by fetches 1..i-1 unchanged
C2_EarlierFilesStay ==
    C2_FailStep =>
        \A j \in 1..Len(fetched) :
            fs'[dm.save_path].files[DMFile(j)] = fs[dm.save_path].files[DMFile(j)]

\* the failing step leaves unchanged every file but the one it was writing
C2_OtherFilesStay ==
    C2_FailStep =>
        \A d \in Dirs, f \in FileNames :
            (d # dm.save_path \/ f # DMFile(dm.i)) => fs'[d].files[f] = fs[d].files[f]

\* C2 as claimed: URLs are fetched in list order; when fetch i fails no later
\* URL is fetched, the call returns null, and the files written by fetches
\* 1..i-1 and the target directory are left on disk unchanged.
C2_Original ==
    /\ []C2_InOrder
    /\ [][C2_FailReturnsNull]_vars
    /\ [][C2_NothingAfter]_vars
    /\ [][C2_DirsStay]_vars
    /\ [][C2_EarlierFilesStay]_vars

\* C2 as amended: as above, but what stays unchanged is every file other
\* than the one fetch i was writing (an earlier fetch may have written a
\* file of the same name, which the failing fetch can leave cut short).
C2_FailureAborts ==
    /\ []C2_InOrder
    /\ [][C2_FailReturnsNull]_vars
    /\ [][C2_NothingAfter]_vars
    /\ [][C2_DirsStay]_vars
    /\ [][C2_OtherFilesStay]_vars

\* reached: of three URLs the second fetch failed, the call returned null
\* with the third URL never fetched, and the file of the first fetch is
\* whole in the directory the call created
C2_Witness ==
    /\ op.kind = "download_model"
    /\ dm.status = "failed"
    /\ pc = "done"
    /\ ret = RetNone
    /\ Len(dm.model_path) = 3
    /\ Len(fetched) = 2
    /\ DMFile(1) # DMFile(2)
    /\ fs0[dm.save_path].kind = "absent"
    /\ fs[dm.save_path].kind = "dir"
    /\ fs[dm.save_path].files[DMFile(1)] = "complete"

\* the directory the check of model_exists_in_package looks in: save_path
\* when given, else the weights directory of the name cut at its first dot
C4_LookupDir ==
    IF op.spGiven THEN op.sp
    ELSE WeightsDir(op.arch, SplitDotFirst(op.name))

C4_AllListed ==
    \A i \in 1..Len(op.files) :
        fs[C4_LookupDir].kind = "dir" /\ fs[C4_LookupDir].files[op.files[i]] # "none"

\* C4 as claimed: with a file list the result is false when a listed file is
\* missing and true when every listed file is present; with no list it is
\* true exactly when the lookup directory exists.
C4_Original ==
    op.kind = "model_exists" =>
        IF op.filesGiven
        THEN ret = RetBool(C4_AllListed)
        ELSE ret = RetBool(fs[C4_LookupDir].kind # "absent")

\* C4 as amended: with a file list the result is true exactly when every
\* listed file is present and the lookup path exists (so an empty list gives
\* false when the path is absent); with no list it is true exactly when the
\* lookup path exists.
C4_FilesAndDir ==
    op.kind = "model_exists" =>
        IF op.filesGiven
        THEN ret = RetBool(C4_AllListed /\ fs[C4_LookupDir].kind # "absent")
        ELSE ret = RetBool(fs[C4_LookupDir].kind # "absent")

\* reached: the directory exists, one listed file is there and another is
\* missing, and the result is false
C4_Witness ==
    /\ op.kind = "model_exists"
    /\ op.filesGiven
    /\ Len(op.files) = 2
    /\ fs[C4_LookupDir].kind = "dir"
    /\ fs[C4_LookupDir].files[op.files[1]] # "none"
    /\ fs[C4_LookupDir].files[op.files[2]] = "none"
    /\ ret = RetBool(FALSE)

\* C8: download_model without URLs, for an architecture or a name the
\* manifest does not hold, ends in a KeyError that propagates, with no
\* directory created and nothing fetched.
C8_KeyErrorBeforeAnyEffect ==
    ( /\ op.kind = "download_model"
      /\ ~op.urlsGiven
      /\ ~(op.arch \in DOMAIN manifestFile /\ op.name \in DOMAIN manifestFile[op.arch]) )
    => /\ pc = "done"
       /\ ret = RetRaise("KeyError")
       /\ fs = fs0
       /\ fetched = <<>>

\* reached: the architecture is in the manifest, the name is not, the
\* target directory did not exist, and the call raised
C8_Witness ==
    /\ op.kind = "download_model"
    /\ ~op.urlsGiven
    /\ op.arch \in DOMAIN manifestFile
    /\ op.name \notin DOMAIN manifestFile[op.arch]
    /\ ~op.spGiven
    /\ fs[WeightsDir(op.arch, op.name)].kind = "absent"
    /\ ret = RetRaise("KeyError")

(***************************************************************************)
(* Properties of download_all_models (checked under SpecAll).              *)
(***************************************************************************)
\* the (architecture, name) pairs of a manifest
AllEntries(mj) ==
    { e \in Archs \X Names : e[1] \in DOMAIN mj /\ e[2] \in DOMAIN mj[e[1]] }

C9_LoadsManifestFile ==
    (op.kind = "download_all" /\ ~op.mjGiven) =>
        /\ ret.kind # "raise"
        /\ all.active
        /\ all.models_json = manifestFile

====
